---- MODULE Spec2Model ----
(***************************************************************************)
(* A model of the two UI-automation pipelines of OpenCowork's skills:      *)
(*                                                                         *)
(*   - the browser pipeline, scripts/publish.py (xiaohongshu-creator):     *)
(*     publish_content and check_status, with _is_logged_in and            *)
(*     _wait_for_login;                                                    *)
(*   - the messaging pipeline, scripts/send_wechat.py (wechat-ui-sender):  *)
(*     main, activate_wechat, restore_from_tray, focus_contact,            *)
(*     select_contact_with_retry, select_contact,                          *)
(*     detect_and_skip_web_search, send_message.                           *)
(*                                                                         *)
(* Each pipeline is one sequential flow of control; its position is a      *)
(* program counter (pubPc, wxPc).  Everything the target UI decides (what  *)
(* a window query returns, whether a selector resolves, whether a click    *)
(* raises) is a nondeterministic choice made in the action that asks.      *)
(* Variables described as "ghost" record what the run has done; the code   *)
(* does not hold them.                                                     *)
(*                                                                         *)
(* Non-ASCII text of the source is written as an English gloss in angle    *)
(* brackets inside the strings.                                            *)
(***************************************************************************)
EXTENDS Integers, Sequences, FiniteSets, TLC

None == "None"

\* Python's None where an element handle is expected.
NoHandle == [sel |-> "None", el |-> 0]

(***************************************************************************)
(*                     BROWSER PIPELINE  (publish.py)                      *)
(***************************************************************************)

VARIABLES
    command,        \* "publish" | "status": the sub-command main dispatches
    pubPc,          \* position in publish_content / check_status
    context,        \* browser context: "none" | "open" | "closed"
    closeCount,     \* ghost: calls of context.close()
    loginPolls,     \* iterations of _wait_for_login's loop done
    loginElapsed,   \* ghost: seconds slept in _wait_for_login's loop
    loginWaits,     \* ghost: calls of _wait_for_login
    loginSeen,      \* ghost: a session check saw a login marker cookie
    pollsAfterSeen, \* ghost: login-wait polls made after one returned True
    step,           \* index into RoleOrder of the chain being resolved
    cand,           \* index of the next candidate of the chain
    waited,         \* ghost: the waits of the current chain, in order
    btn,            \* the chain's result variable (NoHandle or a handle)
    clickedOn,      \* ghost: the handle the latest click acted on
    pasted,         \* ghost: the texts pasted so far
    contentActs,    \* ghost: content actions so far
    failedRole,     \* ghost: the required role whose chain was exhausted
    uploadPolls,    \* iterations of the upload wait done
    uploadClear,    \* ghost: some upload poll found no in-progress marker
    publish_button, \* NoHandle or the handle of the publish control
    publishClicked, \* ghost: publish_button.click() returned
    successSeen,    \* ghost: the success marker was observed
    result,         \* the dict returned: its status, or None
    raised          \* an exception is propagating out of the flow

pubVars == <<command, pubPc, context, closeCount, loginPolls, loginElapsed,
             loginWaits, loginSeen, pollsAfterSeen, step, cand, waited, btn,
             clickedOn, pasted, contentActs, failedRole,
             uploadPolls, uploadClear, publish_button, publishClicked,
             successSeen, result, raised>>

VARIABLES
    wxPc,           \* position in main and the functions it calls
    wxError,        \* None, or the exception main's handler caught
    exitCode,       \* None, or the process exit code
    screenshot_dir, \* args.screenshot_dir is given
    max_retries,    \* activate_wechat's parameter
    attempt,        \* activate_wechat's loop variable
    window,         \* what activate_wechat returned ("none" before)
    acquireQueries, \* ghost: window queries of activate_wechat's loop
    trayIx,         \* restore_from_tray's loop index
    trayQueries,    \* ghost: window queries of restore_from_tray
    procChecks,     \* ghost: is_wechat_running calls of activate_wechat
    launches,       \* ghost: launch_wechat calls of activate_wechat
    trayRestores,   \* ghost: restore_from_tray calls
    delays,         \* ghost: time.sleep(retry_delay) calls of activate_wechat
    contact,        \* args.contact, a string (sequence of characters)
    mode,           \* ghost: the disambiguation branch main took
    max_tries,      \* select_contact_with_retry's max_retries parameter
    tryIx,          \* select_contact_with_retry's loop variable
    keys,           \* ghost: keys pressed since the search was issued
    titleChecks,    \* ghost: title checks of select_contact_with_retry
    rowMatch,       \* ghost: per row tried, its title held a query keyword
    accepted,       \* select_contact_with_retry returned True
    clipboard,      \* the system clipboard: "", "contact" or "message"
    msgPasted,      \* ghost: send_message pasted the message
    msgSent,        \* ghost: send_message pressed enter after the paste
    captures        \* ghost: capture_screenshot calls

wxCtl == <<wxPc, wxError, exitCode, screenshot_dir>>
actVars == <<max_retries, attempt, window, acquireQueries, trayIx,
             trayQueries, procChecks, launches, trayRestores, delays>>
selVars == <<contact, mode, max_tries, tryIx, keys, titleChecks, rowMatch,
             accepted>>
sendVars == <<clipboard, msgPasted, msgSent, captures>>

VARIABLES
    args,           \* the mode flags of the command line (read at line 485)
    procs           \* ghost: the disambiguation procedures executed

flagVars == <<args, procs>>

VARIABLES
    winOps,         \* ghost: what lines 128-145 did to the window queried last
    calls           \* ghost: calls of activate_wechat

opVars == <<winOps, calls>>

VARIABLES
    handlerCapture, \* the handler's capture: "none", "skipped", "saved", "failed"
    reported        \* None, or the error the handler wrote to stderr

errVars == <<handlerCapture, reported>>

VARIABLES
    lastRecovery    \* ghost: what the latest failed attempt did to recover

recVars == <<lastRecovery>>

\* The groups declared after opVars.
wxTail == <<errVars, recVars>>

wxMore == <<flagVars, opVars, wxTail>>
wxVars == <<wxCtl, actVars, selVars, sendVars, wxMore>>

VARIABLES
    printed,        \* None, or the status of the JSON line main printed
    pubExit         \* None, or the exit code of publish.py's process

mainVars == <<printed, pubExit>>

VARIABLES
    invPc,          \* per concurrent invocation, its position
    sysClipboard,   \* the one system clipboard the invocations share
    searchBox,      \* per invocation, what its ctrl+v put in the search box
    inputBox,       \* per invocation, what its ctrl+v put in the input box
    sent            \* per invocation, what its final enter sent

conVars == <<invPc, sysClipboard, searchBox, inputBox, sent>>

VARIABLES
    title,          \* the title given to _truncate_title
    max_len,        \* its max_len parameter
    ttPc,           \* "input", "once" or "twice": how often it was applied
    once,           \* _truncate_title(title, max_len)
    twice           \* _truncate_title(once, max_len)

ttVars == <<title, max_len, ttPc, once, twice>>

VARIABLES
    content,        \* the body text given to _make_image_text
    img_max_len,    \* its max_len parameter
    imPc,           \* "input" or "made"
    image_text      \* _make_image_text(content, img_max_len)

imVars == <<content, img_max_len, imPc, image_text>>

\* What the browser pipeline leaves alone, and what the messaging one does.
nonPubVars == <<wxVars, conVars, ttVars, imVars>>
nonWxVars == <<pubVars, mainVars, conVars, ttVars, imVars>>
nonConVars == <<pubVars, mainVars, wxVars, ttVars, imVars>>
nonTitleVars == <<pubVars, mainVars, wxVars, conVars, imVars>>
nonImageVars == <<pubVars, mainVars, wxVars, conVars, ttVars>>

\* What the flow inside publish_content and check_status leaves alone.
nonFlowVars == <<nonPubVars, mainVars>>

vars == <<pubVars, mainVars, wxVars, conVars, ttVars, imVars>>


\* ---------------------------------------------------------------- bounds

\* DOM elements a selector may resolve to.
MaxElems == 2

\* ------------------------------------------------------- program constants

LOGIN_POLLS == 100
LOGIN_INTERVAL == 3
UPLOAD_POLLS == 30

\* The cookie names _is_logged_in looks for.
LoginCookies == {"a1", "web_session", "webId", "gid"}

\* What context.cookies() may hold: any of the markers, or none of them.
CookieJars == {{}, {"abRequestId"}, {"a1"}, {"web_session", "abRequestId"},
               {"webId", "gid"}, {"gid"}}

\* A login marker cookie is among `names`.
HasMarker(names) == \E c \in names : c \in LoginCookies

\* is_logged_in taking any cookie for a login marker.
is_logged_in_any(names) == names # {}

is_logged_in(names) == (names \cap LoginCookies) # {}

\* The locator chains of publish_content, in the flow's order.
RoleOrder == <<"text_to_image_btn", "content_input", "generate_btn",
               "next_btn", "title_input", "desc_input">>

Chains ==
    [text_to_image_btn |->
        <<"text=<text-to-image>", "div:has-text('<text-to-image>')",
          "span:has-text('<text-to-image>')",
          "button:has-text('<text-to-image>')",
          "[class*='text-image']", "[class*='textImage']">>,
     content_input |->
        <<"div[contenteditable='true']", "textarea", ".editor-content",
          "div[class*='editor']">>,
     generate_btn |->
        <<"text=<generate-image>", "button:has-text('<generate-image>')",
          "div:has-text('<generate-image>')",
          "span:has-text('<generate-image>')", "[class*='generate']">>,
     next_btn |->
        <<"text=<next-step>", "button:has-text('<next-step>')",
          "div:has-text('<next-step>')", "span:has-text('<next-step>')">>,
     title_input |->
        <<"input[placeholder*='<title>']", "input[placeholder*='title']",
          ".title-input input", "input[class*='title']">>,
     desc_input |->
        <<"div[contenteditable='true']", "textarea", ".editor-content",
          "div[class*='editor']">>]

\* Required with the next-step role treated as optional.
RequiredButNext(r) == r \in {"text_to_image_btn", "generate_btn"}

\* A role whose else-branch returns {"status": "error"}.
Required(r) == r \in {"text_to_image_btn", "generate_btn", "next_btn"}

\* The text an input role pastes after its click (None: the role is a button).
PasteOf(r) ==
    CASE r = "content_input" -> "image_text"
      [] r = "title_input"   -> "title"
      [] r = "desc_input"    -> "content"
      [] OTHER               -> None

Role == RoleOrder[step]

\* The handle page.wait_for_selector(sel) returns: element e, found by sel.
Handle(sel, e) == [sel |-> sel, el |-> e]

\* LoopNext without the break.
LoopNextNoBreak(resolved, c, n) == IF c < n THEN c + 1 ELSE 0

\* The `for sel in [...]` loop around wait_for_selector: the index of the
\* candidate to wait on next, 0 when the loop is left (break, or the list is
\* exhausted).
LoopNext(resolved, c, n) ==
    IF resolved THEN 0 ELSE IF c < n THEN c + 1 ELSE 0

\* The element `await <role>.click()` acts on: the chain's result variable.
ClickTarget(h) == h

\* OnRaisePc for a body with no try/finally around it: the exception leaves
\* the function at once.
OnRaisePcUnwound == "done"

\* Where an exception raised by a page action inside the try of lines 167 and
\* 391 goes: to the finally clause (lines 382-383, 402-403).
OnRaisePc == "finally"

\* ---------------------------------------------------------------- Init

PubInit ==
    /\ command \in {"publish", "status"}
    /\ pubPc = "launch"
    /\ context = "none"
    /\ closeCount = 0
    /\ loginPolls = 0
    /\ loginElapsed = 0
    /\ loginWaits = 0
    /\ loginSeen = FALSE
    /\ pollsAfterSeen = 0
    /\ step = 1
    /\ cand = 1
    /\ waited = <<>>
    /\ btn = NoHandle
    /\ clickedOn = NoHandle
    /\ pasted = {}
    /\ contentActs = 0
    /\ failedRole = None
    /\ uploadPolls = 0
    /\ uploadClear = FALSE
    /\ publish_button = NoHandle
    /\ publishClicked = FALSE
    /\ successSeen = FALSE
    /\ result = None
    /\ raised = FALSE
    /\ printed = None
    /\ pubExit = None

\* -------------------------------------------------------------- actions

\* _launch_context: the persistent context is launched, or the script exits.
LaunchContext ==
    /\ UNCHANGED <<nonPubVars, printed>>
    /\ pubPc = "launch"
    /\ \E ok \in BOOLEAN :
        IF ok
        THEN /\ context' = "open"
             /\ pubPc' = "is_logged_in"
             /\ pubExit' = pubExit
        ELSE /\ context' = context
             /\ pubPc' = "exited"
             /\ pubExit' = 1
    /\ UNCHANGED <<command, closeCount, loginPolls, loginElapsed, loginWaits,
                   loginSeen, pollsAfterSeen, step, cand, waited, btn,
                   clickedOn, pasted, contentActs, failedRole,
                   uploadPolls, uploadClear, publish_button, publishClicked,
                   successSeen, result, raised>>

\* The first session check of publish_content (line 168) and of check_status
\* (line 392), with the branch it decides.
CheckLogin ==
    /\ UNCHANGED nonFlowVars
    /\ pubPc = "is_logged_in"
    /\ \E names \in CookieJars :
        /\ loginSeen' = (loginSeen \/ HasMarker(names))
        /\ IF is_logged_in(names)
           THEN IF command = "publish"
                THEN /\ pubPc' = "goto_publish"     \* page = new_page()
                     /\ result' = result
                ELSE /\ pubPc' = "finally"
                     /\ result' = "logged_in"
           ELSE /\ pubPc' = "wait_for_login"
                /\ result' = result
    /\ UNCHANGED <<command, context, closeCount, loginPolls, loginElapsed,
                   loginWaits, pollsAfterSeen, step, cand, waited, btn,
                   clickedOn, pasted, contentActs, failedRole,
                   uploadPolls, uploadClear, publish_button, publishClicked,
                   successSeen, raised>>

\* _wait_for_login, lines 89-91: open the login entry point.  The navigation
\* may raise.
WaitForLoginOpen ==
    /\ UNCHANGED nonFlowVars
    /\ pubPc = "wait_for_login"
    /\ loginWaits' = loginWaits + 1
    /\ \E ok \in BOOLEAN :
        IF ok
        THEN /\ pubPc' = "login_poll"
             /\ raised' = raised
        ELSE /\ pubPc' = OnRaisePc
             /\ raised' = TRUE
    /\ UNCHANGED <<command, context, closeCount, loginPolls, loginElapsed,
                   loginSeen, pollsAfterSeen, step, cand, waited, btn,
                   clickedOn, pasted, contentActs, failedRole,
                   uploadPolls, uploadClear, publish_button, publishClicked,
                   successSeen, result>>

\* What the caller does with what _wait_for_login returned (a page: TRUE,
\* None: FALSE): publish_content lines 169-172, check_status lines 397-400.
AfterLoginPc(login_page) ==
    IF login_page /\ command = "publish" THEN "goto_publish" ELSE "finally"

AfterLoginResult(login_page) ==
    IF ~login_page THEN "not_logged_in"
    ELSE IF command = "publish" THEN result ELSE "logged_in"

\* LoginLoopLeft with one iteration fewer.
LoginLoopLeftEarly(n) == n >= LOGIN_POLLS - 1

\* `for _ in range(100)` has no iteration left after n of them.
LoginLoopLeft(n) == n >= LOGIN_POLLS

\* One iteration of _wait_for_login's loop: sleep, then check the cookies.
\* On `return page` the function's locals (the loop counter) are gone.
LoginPoll ==
    /\ UNCHANGED nonFlowVars
    /\ pubPc = "login_poll"
    /\ ~LoginLoopLeft(loginPolls)
    /\ pollsAfterSeen' = IF loginSeen THEN pollsAfterSeen + 1 ELSE pollsAfterSeen
    /\ \E names \in CookieJars :
        /\ loginSeen' = (loginSeen \/ HasMarker(names))
        /\ IF is_logged_in(names)
           THEN /\ loginPolls' = 0
                /\ loginElapsed' = 0
                /\ pubPc' = AfterLoginPc(TRUE)
                /\ result' = AfterLoginResult(TRUE)
           ELSE /\ loginPolls' = loginPolls + 1
                /\ loginElapsed' = loginElapsed + LOGIN_INTERVAL
                /\ pubPc' = pubPc
                /\ result' = result
    /\ UNCHANGED <<command, context, closeCount, loginWaits, step, cand,
                   waited, btn, clickedOn, pasted, contentActs,
                   failedRole, uploadPolls, uploadClear, publish_button,
                   publishClicked, successSeen, raised>>

\* The loop is exhausted: close the page, return None; both callers then
\* return {"status": "not_logged_in"}.
LoginTimeout ==
    /\ UNCHANGED nonFlowVars
    /\ pubPc = "login_poll"
    /\ LoginLoopLeft(loginPolls)
    /\ result' = AfterLoginResult(FALSE)
    /\ pubPc' = AfterLoginPc(FALSE)
    /\ UNCHANGED <<command, context, closeCount, loginPolls, loginElapsed,
                   loginWaits, loginSeen, pollsAfterSeen, step, cand, waited,
                   btn, clickedOn, pasted, contentActs, failedRole,
                   uploadPolls, uploadClear, publish_button, publishClicked,
                   successSeen, raised>>

\* Step 1: page.goto(the publish page).  The navigation may raise.
GotoPublish ==
    /\ UNCHANGED nonFlowVars
    /\ pubPc = "goto_publish"
    /\ contentActs' = contentActs + 1
    /\ \E ok \in BOOLEAN :
        IF ok
        THEN /\ pubPc' = "wait_for_selector"
             /\ raised' = raised
        ELSE /\ pubPc' = OnRaisePc
             /\ raised' = TRUE
    /\ UNCHANGED <<command, context, closeCount, loginPolls, loginElapsed,
                   loginWaits, loginSeen, pollsAfterSeen, step, cand, waited,
                   btn, clickedOn, pasted, failedRole, uploadPolls,
                   uploadClear, publish_button, publishClicked, successSeen,
                   result>>

\* One iteration of a chain's loop: wait on candidate `cand`; it resolves to
\* an element or times out (the exception is swallowed by `continue`).
WaitForSelector ==
    /\ UNCHANGED nonFlowVars
    /\ pubPc = "wait_for_selector"
    /\ \E resolved \in BOOLEAN, e \in 1..MaxElems :
        LET sel == Chains[Role][cand]
            nxt == LoopNext(resolved, cand, Len(Chains[Role]))
        IN  /\ waited' = Append(waited,
                    [cand |-> cand,
                     got |-> IF resolved THEN Handle(sel, e) ELSE NoHandle])
            /\ btn' = IF resolved THEN Handle(sel, e) ELSE btn
            /\ IF nxt = 0
               THEN /\ pubPc' = "use"
                    /\ cand' = cand
               ELSE /\ pubPc' = pubPc
                    /\ cand' = nxt
    /\ UNCHANGED <<command, context, closeCount, loginPolls, loginElapsed,
                   loginWaits, loginSeen, pollsAfterSeen, step, clickedOn,
                   pasted, contentActs, failedRole, uploadPolls, uploadClear,
                   publish_button, publishClicked, successSeen, result,
                   raised>>

\* Leaving a role's if/else towards the next chain, or towards the upload
\* wait after the last one.
NextStepPc == IF step < Len(RoleOrder) THEN "wait_for_selector" ELSE "upload_wait"
NextStepIx == IF step < Len(RoleOrder) THEN step + 1 ELSE step

\* `if <role>:` with an element: click it (the click may raise when the
\* element has gone) and, for an input, select all, delete and paste.
UseElement ==
    /\ UNCHANGED nonFlowVars
    /\ pubPc = "use"
    /\ btn # NoHandle
    /\ contentActs' = contentActs + 1
    /\ \E ok \in BOOLEAN :
        IF ok
        THEN /\ clickedOn' = ClickTarget(btn)
             /\ pasted' = IF PasteOf(Role) = None THEN pasted
                          ELSE pasted \cup {PasteOf(Role)}
             /\ pubPc' = NextStepPc
             /\ step' = NextStepIx
             /\ cand' = 1
             /\ waited' = <<>>
             /\ btn' = NoHandle
             /\ raised' = raised
        ELSE /\ pubPc' = OnRaisePc
             /\ raised' = TRUE
             /\ UNCHANGED <<clickedOn, pasted, step, cand, waited, btn>>
    /\ UNCHANGED <<command, context, closeCount, loginPolls, loginElapsed,
                   loginWaits, loginSeen, pollsAfterSeen, failedRole,
                   uploadPolls, uploadClear, publish_button, publishClicked,
                   successSeen, result>>

\* `else:` no candidate resolved.  A required role returns the error dict; an
\* optional one prints and goes on.
ElementMissing ==
    /\ UNCHANGED nonFlowVars
    /\ pubPc = "use"
    /\ btn = NoHandle
    /\ IF Required(Role)
       THEN /\ result' = "error"
            /\ failedRole' = Role
            /\ pubPc' = "finally"
            /\ UNCHANGED <<step, cand, waited>>
       ELSE /\ pubPc' = NextStepPc
            /\ step' = NextStepIx
            /\ cand' = 1
            /\ waited' = <<>>
            /\ UNCHANGED <<result, failedRole>>
    /\ UNCHANGED <<command, context, closeCount, loginPolls, loginElapsed,
                   loginWaits, loginSeen, pollsAfterSeen, btn, clickedOn,
                   pasted, contentActs, uploadPolls, uploadClear,
                   publish_button, publishClicked, successSeen, raised>>

\* One iteration of the upload wait: query the in-progress markers (one
\* selector list, an OR); break when none is there, else sleep one second.
\* The loop ends with its last iteration.
UploadPoll ==
    /\ UNCHANGED nonFlowVars
    /\ pubPc = "upload_wait"
    /\ uploadPolls < UPLOAD_POLLS
    /\ uploadPolls' = uploadPolls + 1
    /\ \E uploading \in BOOLEAN :
        /\ uploadClear' = (uploadClear \/ ~uploading)
        /\ pubPc' = IF ~uploading \/ uploadPolls + 1 = UPLOAD_POLLS
                    THEN "find_publish" ELSE pubPc
    /\ UNCHANGED <<command, context, closeCount, loginPolls, loginElapsed,
                   loginWaits, loginSeen, pollsAfterSeen, step, cand, waited,
                   btn, clickedOn, pasted, contentActs, failedRole,
                   publish_button, publishClicked, successSeen, result,
                   raised>>

\* NoButtonStatus collapsed into the unconfirmed status.
NoButtonStatusCollapsed == "ready_to_confirm"

\* The status returned when no publish button was found.
NoButtonStatus == "ready"

\* Lines 355-362, 378-380: the last button with the publish text, None when
\* there is none or the query raised; without one the run returns.
FindPublish ==
    /\ UNCHANGED nonFlowVars
    /\ pubPc = "find_publish"
    /\ \E q \in {"found", "empty", "raised"}, e \in 1..MaxElems :
        IF q = "found"
        THEN /\ publish_button' = Handle("button:has-text('<publish>')", e)
             /\ pubPc' = "click_publish"
             /\ result' = result
        ELSE /\ publish_button' = NoHandle
             /\ pubPc' = "finally"
             /\ result' = NoButtonStatus
    /\ UNCHANGED <<command, context, closeCount, loginPolls, loginElapsed,
                   loginWaits, loginSeen, pollsAfterSeen, step, cand, waited,
                   btn, clickedOn, pasted, contentActs, failedRole,
                   uploadPolls, uploadClear, publishClicked, successSeen,
                   raised>>

\* Lines 363-365: click the publish button; the click may raise.
ClickPublish ==
    /\ UNCHANGED nonFlowVars
    /\ pubPc = "click_publish"
    /\ contentActs' = contentActs + 1
    /\ \E ok \in BOOLEAN :
        IF ok
        THEN /\ publishClicked' = TRUE
             /\ pubPc' = "confirm"
             /\ raised' = raised
        ELSE /\ publishClicked' = publishClicked
             /\ pubPc' = OnRaisePc
             /\ raised' = TRUE
    /\ UNCHANGED <<command, context, closeCount, loginPolls, loginElapsed,
                   loginWaits, loginSeen, pollsAfterSeen, step, cand, waited,
                   btn, clickedOn, pasted, failedRole, uploadPolls,
                   uploadClear, publish_button, successSeen, result>>

\* ConfirmStatus failing the run when the marker is not seen.
ConfirmStatusStrict(seen) == IF seen THEN "published" ELSE "error"

\* The status returned after the click: with and without the success marker.
ConfirmStatus(seen) == IF seen THEN "published" ELSE "ready_to_confirm"

\* Lines 367-377: the bounded wait for the success marker.
Confirm ==
    /\ UNCHANGED nonFlowVars
    /\ pubPc = "confirm"
    /\ \E seen \in BOOLEAN :
        /\ successSeen' = seen
        /\ result' = ConfirmStatus(seen)
    /\ pubPc' = "finally"
    /\ UNCHANGED <<command, context, closeCount, loginPolls, loginElapsed,
                   loginWaits, loginSeen, pollsAfterSeen, step, cand, waited,
                   btn, clickedOn, pasted, contentActs, failedRole,
                   uploadPolls, uploadClear, publish_button, publishClicked,
                   raised>>

\* finally: await context.close(); the function then returns or raises.
Finally ==
    /\ UNCHANGED nonFlowVars
    /\ pubPc = "finally"
    /\ context' = "closed"
    /\ closeCount' = closeCount + 1
    /\ pubPc' = "done"
    /\ UNCHANGED <<command, loginPolls, loginElapsed, loginWaits, loginSeen,
                   pollsAfterSeen, step, cand, waited, btn, clickedOn, pasted,
                   contentActs, failedRole, uploadPolls,
                   uploadClear, publish_button, publishClicked, successSeen,
                   result, raised>>

\* main never looks at the status: the process ends with code 0 after the
\* print, or with code 1 when an exception reached the top level.
MainExitCode(propagating, status) == IF propagating THEN 1 ELSE 0

\* Lines 432-433 and 446-447: main prints the dict asyncio.run returned; an
\* exception out of asyncio.run leaves nothing printed.
MainPrinted(propagating, status) == IF propagating THEN None ELSE status

\* main after publish_content or check_status returned or raised.
MainExit ==
    /\ pubPc = "done"
    /\ printed' = MainPrinted(raised, result)
    /\ pubExit' = MainExitCode(raised, result)
    /\ pubPc' = "exited"
    /\ UNCHANGED <<nonPubVars, command, context, closeCount, loginPolls,
                   loginElapsed, loginWaits, loginSeen, pollsAfterSeen, step,
                   cand, waited, btn, clickedOn, pasted, contentActs,
                   failedRole, uploadPolls, uploadClear, publish_button,
                   publishClicked, successSeen, result, raised>>

PubNext ==
    \/ LaunchContext
    \/ CheckLogin
    \/ WaitForLoginOpen
    \/ LoginPoll
    \/ LoginTimeout
    \/ GotoPublish
    \/ WaitForSelector
    \/ UseElement
    \/ ElementMissing
    \/ UploadPoll
    \/ FindPublish
    \/ ClickPublish
    \/ Confirm
    \/ Finally
    \/ MainExit


(***************************************************************************)
(*                   MESSAGING PIPELINE  (send_wechat.py)                  *)
(***************************************************************************)


\* ---------------------------------------------------------------- bounds

\* The largest --max-retries and --auto-retry-count tried (both default 3).
MaxRetries == 3
MaxAutoRetry == 3
\* The largest --result-index tried.
MaxResultIndex == 1

\* How many times in a row activate_wechat is called when it is studied alone.
MaxCalls == 2

\* ------------------------------------------------------- program constants

\* A window is usable when both its width and its height exceed this.
MIN_SIZE == 100
\* A token of the contact is a keyword when it has at least this length.
MIN_KEYWORD_LEN == 2

\* Window widths and heights: zero-size, just too small, usable.
Sizes == {0, MIN_SIZE, MIN_SIZE + 1}

\* What pygetwindow.getWindowsWithTitle returns in activate_wechat: no window,
\* or a first window with its state and the geometry read at line 147.
WindowObs ==
    {[found |-> FALSE, minimized |-> FALSE, width |-> 0, height |-> 0]}
    \cup [found : {TRUE}, minimized : BOOLEAN, width : Sizes, height : Sizes]

\* Line 147.
Usable(w) == w.found /\ w.width > MIN_SIZE /\ w.height > MIN_SIZE

\* WinOps pressing alt+tab when activate() fails.
WinOpsAltTab(w, failed) ==
    IF ~w.found THEN <<>>
    ELSE IF w.minimized
         THEN IF failed THEN <<"restore", "alt+tab", "sleep">>
              ELSE <<"restore", "sleep">>
         ELSE IF failed THEN <<"activate", "alt+tab", "sleep">>
              ELSE <<"activate", "sleep">>

\* Lines 128-145: a minimized window is restored, with alt+tab when restore()
\* fails; any other window is activated, with restore() when activate()
\* fails; then the settle pause.  No window, nothing done.
WinOps(w, failed) ==
    IF ~w.found THEN <<>>
    ELSE IF w.minimized
         THEN IF failed THEN <<"restore", "alt+tab", "sleep">>
              ELSE <<"restore", "sleep">>
         ELSE IF failed THEN <<"activate", "restore", "sleep">>
              ELSE <<"activate", "sleep">>

\* IsFinalAttempt with the comparison off by one.
IsFinalAttemptOffByOne(a, n) == ~(a <= n)

\* Line 150, negated: the attempt is the last one, so it raises.
IsFinalAttempt(a, n) == ~(a < n)

\* TrayMethods with the first two exchanged.
TrayMethodsSwapped == <<"win+m", "win+d", "win+up">>

\* RetryDelays waiting after a failed launch too.
RetryDelaysAlways(launched) == 1

\* Lines 156-159: retry_delay is slept after a launch that worked, not after
\* one that failed.
RetryDelays(launched) == IF launched THEN 1 ELSE 0

\* restore_from_tray's methods, in the order of its list.
TrayMethods == <<"win+d", "win+m", "win+up">>

\* ---- strings: sequences of one-character strings

\* "G" stands for any upper-case letter, "g" for its lower case; "w", "x"
\* spell the application's own title.
LowerChar(c) == IF c = "G" THEN "g" ELSE c

\* str.lower()
Lower(str) == [i \in 1..Len(str) |-> LowerChar(str[i])]

\* str.split(): the maximal runs of non-space characters, in order.
RECURSIVE SplitFrom(_, _, _)
SplitFrom(str, i, cur) ==
    IF i > Len(str)
    THEN IF cur = <<>> THEN <<>> ELSE <<cur>>
    ELSE IF str[i] = " "
         THEN IF cur = <<>> THEN SplitFrom(str, i + 1, <<>>)
              ELSE <<cur>> \o SplitFrom(str, i + 1, <<>>)
         ELSE SplitFrom(str, i + 1, Append(cur, str[i]))

Split(str) == SplitFrom(str, 1, <<>>)

\* str.strip()
RECURSIVE Strip(_)
Strip(str) ==
    IF str = <<>> THEN str
    ELSE IF Head(str) = " " THEN Strip(Tail(str))
    ELSE IF str[Len(str)] = " " THEN Strip(SubSeq(str, 1, Len(str) - 1))
    ELSE str

\* `kw in title`
Contains(str, kw) ==
    \E i \in 0..(Len(str) - Len(kw)) : SubSeq(str, i + 1, i + Len(kw)) = kw

RECURSIVE KeepKeywords(_)
KeepKeywords(tokens) ==
    IF tokens = <<>> THEN <<>>
    ELSE IF Len(Strip(Head(tokens))) >= MIN_KEYWORD_LEN
         THEN <<Lower(Strip(Head(tokens)))>> \o KeepKeywords(Tail(tokens))
         ELSE KeepKeywords(Tail(tokens))

\* Line 190.
Keywords(c) == KeepKeywords(Split(c))

\* AnyKeywordIn without lower-casing the title.
AnyKeywordInCaseSensitive(shown, kws) ==
    \E j \in 1..Len(kws) : Contains(shown, kws[j])

\* Lines 207-208: any(kw in title for kw in keywords), title lower-cased.
AnyKeywordIn(shown, kws) ==
    \E j \in 1..Len(kws) : Contains(Lower(shown), kws[j])

\* The contacts searched for: a two-word query, a query of one-letter words
\* (no keyword), a one-word query with an upper-case letter.
Contacts == {<<"a", "b", " ", "c", "G">>, <<"a", " ", "b">>, <<"G", "a">>}

\* The titles a window may show at a title check.
Titles == {<<"w", "x">>, <<"w", "x", " ", "a", "b">>,
           <<"c", "G", " ", "w", "x">>, <<"w", "x", " ", "a", " ", "b">>,
           <<"g", "a", "w", "x">>}

\* A title check sees no window, fails with an exception, or reads a title.
NoWindow == <<"-">>
QueryRaised == <<"!">>
TitleObs == Titles \cup {NoWindow, QueryRaised}

\* The query's tokens of keyword length: the runs of non-space characters
\* str[i..j] that no non-space character extends, with j - i + 1 >= 2.
TokenAt(str, i, j) ==
    /\ 1 <= i /\ i <= j /\ j <= Len(str)
    /\ \A k \in i..j : str[k] # " "
    /\ (i = 1 \/ str[i - 1] = " ")
    /\ (j = Len(str) \/ str[j + 1] = " ")

\* Ghost: the observed title holds, case-insensitively, a keyword token of
\* the query.  Stated on its own, not through Keywords.
TitleHasKeyword(obs, c) ==
    /\ obs \in Titles
    /\ \E i \in 1..Len(c), j \in 1..Len(c) :
        /\ TokenAt(c, i, j)
        /\ j - i + 1 >= 2
        /\ \E p \in 0..(Len(obs) - (j - i + 1)) :
            \A k \in 0..(j - i) :
                LowerChar(obs[p + 1 + k]) = LowerChar(c[i + k])

\* The downs and the enter of lines 195-198 for loop index a.
RECURSIVE Downs(_)
Downs(n) == IF n <= 0 THEN <<>> ELSE <<"down">> \o Downs(n - 1)

RetryKeys(a) == IF a > 0 THEN Downs(a) \o <<"enter">> ELSE <<>>

\* `for attempt in range(max_retries)` has no iteration left at index a.
RetryLoopLeft(a, n) == a >= n

\* AfterRetryPc ignoring the result.
AfterRetryPcIgnored(success) == "send_message"

\* What main does with select_contact_with_retry's result (lines 488-489).
AfterRetryPc(success) == IF success THEN "send_message" ELSE "except"

\* The mode flags of the command line, every combination of them.
ArgSets == [confirm : BOOLEAN, interactive : BOOLEAN,
            auto_detect_web_search : BOOLEAN, auto_retry : BOOLEAN]

NoFlags == [confirm |-> FALSE, interactive |-> FALSE,
            auto_detect_web_search |-> FALSE, auto_retry |-> FALSE]

\* Lines 485-493: the branch main takes.
Branch(a) ==
    IF a.auto_retry THEN "auto_retry"
    ELSE IF a.auto_detect_web_search THEN "auto_detect"
    ELSE "select"

\* Prompts looking at --confirm alone.
PromptsConfirmOnly(confirm, interactive) == confirm

\* Line 224: select_contact blocks in input() first.
Prompts(confirm, interactive) == confirm \/ interactive

\* ---------------------------------------------------------------- Init

WxRest ==
    /\ wxPc = "start"
    /\ wxError = None
    /\ exitCode = None
    /\ max_retries = 0
    /\ attempt = 0
    /\ window = "none"
    /\ acquireQueries = 0
    /\ trayIx = 0
    /\ trayQueries = 0
    /\ procChecks = 0
    /\ launches = 0
    /\ trayRestores = 0
    /\ delays = 0
    /\ contact = <<>>
    /\ mode = "none"
    /\ max_tries = 0
    /\ tryIx = 0
    /\ keys = <<>>
    /\ titleChecks = 0
    /\ rowMatch = <<>>
    /\ accepted = FALSE
    /\ clipboard = ""
    /\ msgPasted = FALSE
    /\ msgSent = FALSE
    /\ captures = 0
    /\ procs = {}
    /\ winOps = <<>>
    /\ calls = 0
    /\ handlerCapture = "none"
    /\ reported = None
    /\ lastRecovery = "none"

WxInit == screenshot_dir \in BOOLEAN /\ args \in ArgSets /\ WxRest

\* -------------------------------------------------------------- actions

\* Lines 472-483: the optional forced launch, then the call of
\* activate_wechat, which binds max_retries.
CallActivate ==
    /\ wxPc = "start"
    /\ \E n \in 0..MaxRetries : max_retries' = n
    /\ attempt' = 1
    /\ calls' = calls + 1
    /\ wxPc' = "acquire"
    /\ UNCHANGED <<wxError, exitCode, screenshot_dir, window, acquireQueries,
                   trayIx, trayQueries, procChecks, launches, trayRestores,
                   delays, selVars, sendVars, nonWxVars, wxTail, flagVars, winOps>>

\* `for attempt in range(1, max_retries + 1)` has an iteration for a.
InRange(a, n) == a <= n

\* Line 170: the loop ended without a return or a raise of its own.
LoopEnd ==
    /\ wxPc = "acquire"
    /\ ~InRange(attempt, max_retries)
    /\ wxPc' = "except"
    /\ wxError' = "could_not_find"
    /\ UNCHANGED <<exitCode, screenshot_dir, actVars, selVars, sendVars,
                   nonWxVars, wxMore>>

\* Lines 126-148: query the windows; restore or activate the first one (a
\* failure of either is swallowed), pause, and return it when it is usable.
Acquire ==
    /\ wxPc = "acquire"
    /\ InRange(attempt, max_retries)
    /\ acquireQueries' = acquireQueries + 1
    /\ \E w \in WindowObs, failed \in BOOLEAN :
        /\ winOps' = WinOps(w, failed)
        /\ IF Usable(w)
           THEN /\ window' = "window"
                /\ wxPc' = "focus_contact"
           ELSE /\ window' = window
                /\ wxPc' = "attempt_failed"
    /\ UNCHANGED <<wxError, exitCode, screenshot_dir, max_retries, attempt,
                   trayIx, trayQueries, procChecks, launches, trayRestores,
                   delays, selVars, sendVars, nonWxVars, wxTail, flagVars, calls>>

\* Lines 150-168: after a failed attempt that is not the last, check the
\* process; launch it when it is not running (waiting retry_delay only when
\* the launch worked), else go and restore from the tray.  The last attempt
\* raises.
AttemptFailed ==
    /\ wxPc = "attempt_failed"
    /\ IF IsFinalAttempt(attempt, max_retries)
       THEN /\ wxPc' = "except"
            /\ wxError' = "could_not_activate"
            /\ UNCHANGED <<attempt, trayIx, procChecks, launches,
                           trayRestores, delays, lastRecovery>>
       ELSE /\ procChecks' = procChecks + 1
            /\ wxError' = wxError
            /\ \E running \in BOOLEAN, launched \in BOOLEAN :
                IF ~running
                THEN /\ launches' = launches + 1
                     /\ delays' = delays + RetryDelays(launched)
                     /\ lastRecovery' = IF launched THEN "launched"
                                        ELSE "launch_failed"
                     /\ attempt' = attempt + 1
                     /\ wxPc' = "acquire"
                     /\ UNCHANGED <<trayIx, trayRestores>>
                ELSE /\ trayRestores' = trayRestores + 1
                     /\ lastRecovery' = "tray"
                     /\ trayIx' = 1
                     /\ wxPc' = "restore_from_tray"
                     /\ UNCHANGED <<attempt, launches, delays>>
    /\ UNCHANGED <<exitCode, screenshot_dir, max_retries, window,
                   acquireQueries, trayQueries, selVars, sendVars, nonWxVars,
                   flagVars, opVars, errVars>>

\* One iteration of restore_from_tray's loop (lines 105-113): press the
\* method's hotkey, sleep, query the windows; an exception of either call
\* skips to the next method.  After the loop, or on its `return True`,
\* activate_wechat sleeps retry_delay (line 163) and starts the next attempt.
TrayMethod ==
    /\ wxPc = "restore_from_tray"
    /\ \E out \in {"hotkey_raised", "query_raised", "not_found", "found"} :
        /\ trayQueries' = IF out = "hotkey_raised" THEN trayQueries
                          ELSE trayQueries + 1
        /\ winOps' = Append(winOps, TrayMethods[trayIx])
        /\ IF out = "found" \/ trayIx = Len(TrayMethods)
           THEN /\ delays' = delays + 1
                /\ attempt' = attempt + 1
                /\ trayIx' = 0
                /\ wxPc' = "acquire"
           ELSE /\ trayIx' = trayIx + 1
                /\ UNCHANGED <<delays, attempt, wxPc>>
    /\ UNCHANGED <<wxError, exitCode, screenshot_dir, max_retries, window,
                   acquireQueries, procChecks, launches, trayRestores,
                   selVars, sendVars, nonWxVars, flagVars, calls, wxTail>>

\* focus_contact: open the search box, copy the contact, paste it.
FocusContact ==
    /\ wxPc = "focus_contact"
    /\ \E c \in Contacts : contact' = c
    /\ clipboard' = "contact"
    /\ keys' = <<"ctrl+f", "ctrl+v">>
    /\ winOps' = <<>>
    /\ wxPc' = "dispatch"
    /\ UNCHANGED <<wxError, exitCode, screenshot_dir, actVars, mode,
                   max_tries, tryIx, titleChecks, rowMatch, accepted,
                   msgPasted, msgSent, captures, nonWxVars, wxTail, flagVars, calls>>

\* Lines 485-493: the branch on the mode flags.  The auto-retry branch calls
\* select_contact_with_retry, which binds auto_retry_count.
Dispatch ==
    /\ wxPc = "dispatch"
    /\ mode' = Branch(args)
    /\ IF Branch(args) = "auto_retry"
       THEN /\ \E n \in 0..MaxAutoRetry : max_tries' = n
            /\ procs' = procs \cup {"auto_retry"}
            /\ wxPc' = "retry_keys"
       ELSE /\ max_tries' = max_tries
            /\ procs' = procs
            /\ wxPc' = IF Branch(args) = "auto_detect" THEN "detect"
                       ELSE "select_contact"
    /\ tryIx' = 0
    /\ UNCHANGED <<wxError, exitCode, screenshot_dir, actVars, contact, keys,
                   titleChecks, rowMatch, accepted, sendVars, nonWxVars, wxTail,
                   args, opVars>>

\* Lines 192-201: the head of one iteration: for every row after the first,
\* press down `attempt` times and enter.  With no iteration left the
\* function returns False and main raises.
RetryAdvance ==
    /\ wxPc = "retry_keys"
    /\ IF RetryLoopLeft(tryIx, max_tries)
       THEN /\ wxPc' = AfterRetryPc(FALSE)
            /\ wxError' = "no_match"
            /\ keys' = keys
       ELSE /\ wxPc' = "retry_check"
            /\ wxError' = wxError
            /\ keys' = keys \o RetryKeys(tryIx)
    /\ UNCHANGED <<exitCode, screenshot_dir, actVars, contact, mode,
                   max_tries, tryIx, titleChecks, rowMatch, accepted,
                   sendVars, nonWxVars, wxMore>>

\* Lines 203-212: the title check; a match returns True.
RetryCheck ==
    /\ wxPc = "retry_check"
    /\ titleChecks' = titleChecks + 1
    /\ \E obs \in TitleObs :
        /\ rowMatch' = Append(rowMatch, TitleHasKeyword(obs, contact))
        /\ IF obs \in Titles /\ AnyKeywordIn(obs, Keywords(contact))
           THEN /\ accepted' = TRUE
                /\ wxPc' = AfterRetryPc(TRUE)
                /\ tryIx' = tryIx
           ELSE /\ accepted' = accepted
                /\ wxPc' = "retry_keys"
                /\ tryIx' = tryIx + 1
    /\ UNCHANGED <<wxError, exitCode, screenshot_dir, actVars, contact, mode, max_tries, keys,
                   sendVars, nonWxVars, wxMore>>

\* detect_and_skip_web_search: when the recognized text of the result area
\* names the web-search row, press down and enter; in every other case (no
\* OCR library, a small screen, any exception, no such text) press nothing.
DetectAndSkip ==
    /\ wxPc = "detect"
    /\ \E out \in {"import_error", "small_screen", "raised", "no_web_search",
                   "web_search"} :
        keys' = IF out = "web_search" THEN keys \o <<"down", "enter">>
                ELSE keys
    /\ procs' = procs \cup {"auto_detect"}
    /\ wxPc' = "send_message"
    /\ UNCHANGED <<wxError, exitCode, screenshot_dir, actVars, contact, mode,
                   max_tries, tryIx, titleChecks, rowMatch, accepted,
                   sendVars, nonWxVars, wxTail, args, opVars>>

\* Lines 229-234: the downs of result_index (none when interactive) and the
\* enter.
SelectKeys(result_index, interactive) ==
    (IF result_index > 0 /\ ~interactive THEN Downs(result_index) ELSE <<>>)
    \o <<"enter">>

\* select_contact without --confirm and --interactive: press the keys.  With
\* either flag it first blocks in input().
SelectContact ==
    /\ wxPc = "select_contact"
    /\ IF Prompts(args.confirm, args.interactive)
       THEN /\ wxPc' = "input"
            /\ procs' = procs \cup {"manual"}
            /\ keys' = keys
       ELSE /\ wxPc' = "send_message"
            /\ procs' = procs
            /\ \E ri \in 0..MaxResultIndex :
                keys' = keys \o SelectKeys(ri, args.interactive)
    /\ UNCHANGED <<wxError, exitCode, screenshot_dir, actVars, contact, mode,
                   max_tries, tryIx, titleChecks, rowMatch, accepted,
                   sendVars, nonWxVars, wxTail, args, opVars>>

\* input() returns when the human presses Enter, or raises at end of input.
HumanInput ==
    /\ wxPc = "input"
    /\ \E eof \in BOOLEAN, ri \in 0..MaxResultIndex :
        IF eof
        THEN /\ wxPc' = "except"
             /\ wxError' = "eof"
             /\ keys' = keys
        ELSE /\ wxPc' = "send_message"
             /\ wxError' = wxError
             /\ keys' = keys \o SelectKeys(ri, args.interactive)
    /\ UNCHANGED <<exitCode, screenshot_dir, actVars, contact, mode,
                   max_tries, tryIx, titleChecks, rowMatch, accepted,
                   sendVars, nonWxVars, wxMore>>

\* send_message: copy the message, paste it, press enter.
SendMessage ==
    /\ wxPc = "send_message"
    /\ clipboard' = "message"
    /\ msgPasted' = TRUE
    /\ msgSent' = TRUE
    /\ keys' = keys \o <<"ctrl+v", "enter">>
    /\ wxPc' = "after_send"
    /\ UNCHANGED <<wxError, exitCode, screenshot_dir, actVars, contact, mode,
                   max_tries, tryIx, titleChecks, rowMatch, accepted,
                   captures, nonWxVars, wxMore>>

\* Lines 495-497 and 510-512: the optional screenshot, inside the try, then
\* status=success.  A failing capture raises into main's handler.
AfterSend ==
    /\ wxPc = "after_send"
    /\ IF screenshot_dir
       THEN /\ captures' = captures + 1
            /\ \E ok \in BOOLEAN :
                IF ok
                THEN /\ wxPc' = "exited"
                     /\ exitCode' = 0
                     /\ wxError' = wxError
                ELSE /\ wxPc' = "except"
                     /\ exitCode' = exitCode
                     /\ wxError' = "capture_failed"
       ELSE /\ captures' = captures
            /\ wxPc' = "exited"
            /\ exitCode' = 0
            /\ wxError' = wxError
    /\ UNCHANGED <<screenshot_dir, actVars, selVars, clipboard, msgPasted,
                   msgSent, nonWxVars, wxMore>>

\* CaptureWanted whatever the command line says.
CaptureAlways(dir) == TRUE

\* Line 500: the handler captures only when --screenshot-dir was given.
CaptureWanted(dir) == dir

\* ReportedError letting a failed capture take the error's place.
ReportedErrorMasked(exc, capture) ==
    IF capture = "failed" THEN "capture_failed" ELSE exc

\* Lines 503-505: the capture's own exception is dropped; the line written
\* to stderr is the exception the handler caught.
ReportedError(exc, capture) == exc

\* Line 508.
HandlerExit(exc) == 1

\* Lines 498-508: main's handler: the best-effort capture (its own failure
\* is swallowed), the error line, exit code 1.
Except ==
    /\ wxPc = "except"
    /\ IF CaptureWanted(screenshot_dir)
       THEN /\ captures' = captures + 1
            /\ \E ok \in BOOLEAN :
                handlerCapture' = IF ok THEN "saved" ELSE "failed"
       ELSE /\ captures' = captures
            /\ handlerCapture' = "skipped"
    /\ reported' = ReportedError(wxError, handlerCapture')
    /\ exitCode' = HandlerExit(wxError)
    /\ wxPc' = "exited"
    /\ UNCHANGED <<wxError, screenshot_dir, actVars, selVars, clipboard,
                   msgPasted, msgSent, nonWxVars, flagVars, opVars, recVars>>

WxNext ==
    \/ CallActivate
    \/ LoopEnd
    \/ Acquire
    \/ AttemptFailed
    \/ TrayMethod
    \/ FocusContact
    \/ Dispatch
    \/ RetryAdvance
    \/ RetryCheck
    \/ DetectAndSkip
    \/ SelectContact
    \/ HumanInput
    \/ SendMessage
    \/ AfterSend
    \/ Except

\* ------------------------------------------------ title truncation

\* The longest title tried.
MaxTitleLen == 7

\* The characters of a title: a letter, the space, a punctuation mark of the
\* separator list, an emoji.
TitleChars == {"a", " ", "!", "E"}

\* The values of max_len tried (the script's own is XHS_TITLE_MAX_LEN).
TitleMaxLens == {5, 6}

\* The separators of line 144 that the alphabet has, in the list's order.
Separators == <<"!", " ">>

\* _strip_emoji: every character of the emoji ranges is removed.
IsEmoji(c) == c = "E"
_strip_emoji(text) == SelectSeq(text, LAMBDA c : ~IsEmoji(c))

\* str.rfind(ch): the highest 0-based index of ch, or -1.
RFind(str, ch) ==
    LET at == {i \in 0..(Len(str) - 1) : str[i + 1] = ch}
    IN  IF at = {} THEN -1 ELSE CHOOSE i \in at : \A j \in at : j <= i

\* Lines 144-148: the first separator of the list whose last occurrence in
\* `truncated` lies past max_len // 2 decides the cut.
RECURSIVE CutAtSeparator(_, _, _)
CutAtSeparator(truncated, seps, n) ==
    IF seps = <<>> THEN truncated
    ELSE LET idx == RFind(truncated, Head(seps))
         IN  IF idx > n \div 2
             THEN SubSeq(truncated, 1, idx + 1)
             ELSE CutAtSeparator(truncated, Tail(seps), n)

\* Lines 134-148.
_truncate_title(t, n) ==
    LET stripped == Strip(_strip_emoji(t))
    IN  IF Len(stripped) <= n THEN stripped
        ELSE CutAtSeparator(SubSeq(stripped, 1, n), Separators, n)

TitleRest ==
    /\ title = <<>>
    /\ max_len = 0
    /\ ttPc = "idle"
    /\ once = <<>>
    /\ twice = <<>>

\* Every title over the alphabet up to MaxTitleLen characters.
TitlesTried == UNION {[1..k -> TitleChars] : k \in 0..MaxTitleLen}

TitleInit ==
    /\ title \in TitlesTried
    /\ max_len \in TitleMaxLens
    /\ ttPc = "input"
    /\ once = <<>>
    /\ twice = <<>>

\* _truncate_title applied to the title.
TruncateOnce ==
    /\ ttPc = "input"
    /\ once' = _truncate_title(title, max_len)
    /\ ttPc' = "once"
    /\ UNCHANGED <<title, max_len, twice, nonTitleVars>>

\* _truncate_title applied to its own result.
TruncateTwice ==
    /\ ttPc = "once"
    /\ twice' = _truncate_title(once, max_len)
    /\ ttPc' = "twice"
    /\ UNCHANGED <<title, max_len, once, nonTitleVars>>

TitleNext == TruncateOnce \/ TruncateTwice

\* ------------------------------------------------------ image text

\* The longest body text tried.
MaxContentLen == 6

\* The characters of a body text: a letter, the space, the hash sign, an
\* emoji.
ContentChars == {"a", " ", "#", "E"}

\* The values of max_len tried (the default is 500).
ImageMaxLens == {2, 3}

\* RemoveHashtags leaving the text as it is.
RemoveHashtagsNot(text, i, inTag) == text

\* re.sub(r'#\S+', '', text), scanning from position i: a '#' followed by a
\* non-space character starts a token that runs to the next space or the end.
RECURSIVE RemoveHashtags(_, _, _)
RemoveHashtags(text, i, inTag) ==
    IF i > Len(text) THEN <<>>
    ELSE IF inTag
         THEN IF text[i] = " "
              THEN <<text[i]>> \o RemoveHashtags(text, i + 1, FALSE)
              ELSE RemoveHashtags(text, i + 1, TRUE)
         ELSE IF text[i] = "#" /\ i < Len(text) /\ text[i + 1] # " "
              THEN RemoveHashtags(text, i + 1, TRUE)
              ELSE <<text[i]>> \o RemoveHashtags(text, i + 1, FALSE)

\* text[:n]
Prefix(text, n) == SubSeq(text, 1, IF Len(text) < n THEN Len(text) ELSE n)

\* Lines 126-128: emoji out, hashtags out, strip.
CleanedText(c) == Strip(RemoveHashtags(_strip_emoji(c), 1, FALSE))

\* Lines 123-131.
_make_image_text(c, n) ==
    LET text == Prefix(CleanedText(c), n)
    IN  IF text # <<>> THEN text ELSE Prefix(c, n)

ImageRest ==
    /\ content = <<>>
    /\ img_max_len = 0
    /\ imPc = "idle"
    /\ image_text = <<>>

\* Every body text over the alphabet up to MaxContentLen characters.
ContentsTried == UNION {[1..k -> ContentChars] : k \in 0..MaxContentLen}

ImageInit ==
    /\ content \in ContentsTried
    /\ img_max_len \in ImageMaxLens
    /\ imPc = "input"
    /\ image_text = <<>>

\* _make_image_text applied to the body text.
MakeImageText ==
    /\ imPc = "input"
    /\ image_text' = _make_image_text(content, img_max_len)
    /\ imPc' = "made"
    /\ UNCHANGED <<content, img_max_len, nonImageVars>>

ImageNext == MakeImageText

\* ------------------------------------------- concurrent invocations

\* Two invocations of the script against the same desktop.
Invocations == {1, 2}

\* A text on the clipboard or in a box: whose it is and which one.
NoText == [by |-> 0, text |-> "none"]
TextOf(p, kind) == [by |-> p, text |-> kind]

\* CopiedText copying the contact where the message is meant.
CopiedTextContactOnly(p, kind) == TextOf(p, "contact")

\* pyperclip.copy(x): the clipboard holds x.
CopiedText(p, kind) == TextOf(p, kind)

\* ctrl+v: the focused box receives what the clipboard holds at that moment.
PastedText(clip) == clip

ConRest ==
    /\ invPc = [p \in Invocations |-> "idle"]
    /\ sysClipboard = NoText
    /\ searchBox = [p \in Invocations |-> NoText]
    /\ inputBox = [p \in Invocations |-> NoText]
    /\ sent = [p \in Invocations |-> NoText]

\* The invocation starts; its window is activated (no lock is taken).
StartInvocation(p) ==
    /\ invPc[p] = "idle"
    /\ invPc' = [invPc EXCEPT ![p] = "copy_contact"]
    /\ UNCHANGED <<sysClipboard, searchBox, inputBox, sent>>
    /\ UNCHANGED nonConVars

\* focus_contact, lines 174-176: ctrl+f, the pause, pyperclip.copy(contact).
CopyContact(p) ==
    /\ invPc[p] = "copy_contact"
    /\ sysClipboard' = CopiedText(p, "contact")
    /\ invPc' = [invPc EXCEPT ![p] = "paste_contact"]
    /\ UNCHANGED <<searchBox, inputBox, sent>>
    /\ UNCHANGED nonConVars

\* focus_contact, lines 177-178: ctrl+v into the search box, the delay.
PasteContact(p) ==
    /\ invPc[p] = "paste_contact"
    /\ searchBox' = [searchBox EXCEPT ![p] = PastedText(sysClipboard)]
    /\ invPc' = [invPc EXCEPT ![p] = "select"]
    /\ UNCHANGED <<sysClipboard, inputBox, sent>>
    /\ UNCHANGED nonConVars

\* select_contact, lines 233-234: enter on the highlighted row.
SelectRow(p) ==
    /\ invPc[p] = "select"
    /\ invPc' = [invPc EXCEPT ![p] = "copy_message"]
    /\ UNCHANGED <<sysClipboard, searchBox, inputBox, sent>>
    /\ UNCHANGED nonConVars

\* send_message, lines 287-288: pyperclip.copy(message), the pause.
CopyMessage(p) ==
    /\ invPc[p] = "copy_message"
    /\ sysClipboard' = CopiedText(p, "message")
    /\ invPc' = [invPc EXCEPT ![p] = "paste_message"]
    /\ UNCHANGED <<searchBox, inputBox, sent>>
    /\ UNCHANGED nonConVars

\* send_message, lines 289-290: ctrl+v into the input box, the pause.
PasteMessage(p) ==
    /\ invPc[p] = "paste_message"
    /\ inputBox' = [inputBox EXCEPT ![p] = PastedText(sysClipboard)]
    /\ invPc' = [invPc EXCEPT ![p] = "enter"]
    /\ UNCHANGED <<sysClipboard, searchBox, sent>>
    /\ UNCHANGED nonConVars

\* send_message, line 291: enter sends what the input box holds.
PressEnter(p) ==
    /\ invPc[p] = "enter"
    /\ sent' = [sent EXCEPT ![p] = inputBox[p]]
    /\ invPc' = [invPc EXCEPT ![p] = "done"]
    /\ UNCHANGED <<sysClipboard, searchBox, inputBox>>
    /\ UNCHANGED nonConVars

ConNext ==
    \E p \in Invocations :
        \/ StartInvocation(p)
        \/ CopyContact(p)
        \/ PasteContact(p)
        \/ SelectRow(p)
        \/ CopyMessage(p)
        \/ PasteMessage(p)
        \/ PressEnter(p)

\* activate_wechat called again, with the same arguments, after it returned.
CallAgain ==
    /\ wxPc = "focus_contact"
    /\ calls < MaxCalls
    /\ calls' = calls + 1
    /\ attempt' = 1
    /\ winOps' = <<>>
    /\ wxPc' = "acquire"
    /\ UNCHANGED <<wxError, exitCode, screenshot_dir, max_retries, window,
                   acquireQueries, trayIx, trayQueries, procChecks, launches,
                   trayRestores, delays, selVars, sendVars, nonWxVars, wxTail,
                   flagVars>>

\* activate_wechat alone, called up to MaxCalls times in a row.
ActivateNext ==
    \/ CallActivate
    \/ LoopEnd
    \/ Acquire
    \/ AttemptFailed
    \/ TrayMethod
    \/ CallAgain

ActivateInit ==
    PubInit /\ command = "publish" /\ screenshot_dir = FALSE
        /\ args = NoFlags /\ WxRest /\ ConRest /\ TitleRest /\ ImageRest

\* Concurrent invocations of the messaging script, step by step.
ConInit == ActivateInit

SpecConcurrent == ConInit /\ [][ConNext]_vars

\* _truncate_title alone, on every title and max_len tried.
TitleOnlyInit ==
    PubInit /\ command = "publish" /\ screenshot_dir = FALSE
        /\ args = NoFlags /\ WxRest /\ ConRest /\ TitleInit /\ ImageRest

SpecTitle == TitleOnlyInit /\ [][TitleNext]_vars

\* _make_image_text alone, on every body text and max_len tried.
ImageOnlyInit ==
    PubInit /\ command = "publish" /\ screenshot_dir = FALSE
        /\ args = NoFlags /\ WxRest /\ ConRest /\ TitleRest /\ ImageInit

SpecImage == ImageOnlyInit /\ [][ImageNext]_vars

SpecActivate == ActivateInit /\ [][ActivateNext]_vars

\* The messaging pipeline alone; the browser pipeline is not started.
WxOnlyInit == WxInit /\ PubInit /\ command = "publish" /\ ConRest /\ TitleRest /\ ImageRest

SpecWechat == WxOnlyInit /\ [][WxNext]_vars

\* The steps the script takes by itself; HumanInput is the human's step.
WxProgram ==
    \/ CallActivate
    \/ LoopEnd
    \/ Acquire
    \/ AttemptFailed
    \/ TrayMethod
    \/ FocusContact
    \/ Dispatch
    \/ RetryAdvance
    \/ RetryCheck
    \/ DetectAndSkip
    \/ SelectContact
    \/ SendMessage
    \/ AfterSend
    \/ Except

\* The messaging pipeline with a script that keeps running: every step of
\* the script that can be taken is taken, every call it makes returns or
\* raises; the human at the input() prompt may answer or never answer.
SpecWechatLive == WxOnlyInit /\ [][WxNext]_vars /\ WF_vars(WxProgram)

\* The browser pipeline alone; the messaging pipeline is not started.
PubOnlyInit ==
    PubInit /\ screenshot_dir = FALSE /\ args = NoFlags /\ WxRest /\ ConRest /\ TitleRest /\ ImageRest

SpecPublish == PubOnlyInit /\ [][PubNext]_vars

(***************************************************************************)
(*                               PROPERTIES                                *)
(***************************************************************************)

PubEnded == pubPc \in {"finally", "done"} \/ (pubPc = "exited" /\ context # "none")

\* The publish control was looked for and not found.
SubmitNotFound ==
    PubEnded /\ uploadPolls > 0 /\ publish_button = NoHandle /\ ~raised

\* The publish control was clicked and no success marker was observed.
ClickedUnconfirmed == PubEnded /\ publishClicked /\ ~successSeen

\* ------------------------------------------------------------------- C1

\* C1, as stated: when activate_wechat raises 'could not activate' with
\* max_retries = N, the target window was queried exactly N times in all.
\* restore_from_tray queries it too, so this fails.
C1_QueriesExactlyN ==
    wxError = "could_not_activate" =>
        acquireQueries + trayQueries = max_retries

\* C1, amended: with max_retries = N >= 1 and no usable window ever seen,
\* activate_wechat raises 'could not activate' (never the loop-end error)
\* after exactly N acquire attempts, that is N window queries of its own
\* loop; each of the N - 1 earlier failed attempts made one process check
\* and one launch or one tray restore, the tray restores made at most three
\* further window queries each, and the N-th failed attempt made no process
\* check, launch, tray restore or delay.
C1_ExactlyNAttempts ==
    /\ wxError = "could_not_find" => max_retries = 0
    /\ wxError = "could_not_activate" =>
        /\ max_retries >= 1
        /\ window = "none"
        /\ acquireQueries = max_retries
        /\ procChecks = max_retries - 1
        /\ launches + trayRestores = max_retries - 1
        /\ delays <= max_retries - 1
        /\ trayQueries <= 3 * trayRestores

C1_Witness ==
    /\ wxError = "could_not_activate"
    /\ max_retries = 3
    /\ trayQueries > 0
    /\ launches > 0

\* ------------------------------------------------------------------- C2

C2_ChainInv ==
    LET n == Len(waited) IN
    /\ n <= Len(Chains[Role])
    /\ \A i \in 1..n : waited[i].cand = i
    /\ \A i \in 1..(n - 1) : waited[i].got = NoHandle
    /\ pubPc = "wait_for_selector" =>
        /\ btn = NoHandle
        /\ cand = n + 1
        /\ n > 0 => waited[n].got = NoHandle
    /\ pubPc = "use" =>
        /\ n >= 1
        /\ btn = waited[n].got
        /\ btn = NoHandle => n = Len(Chains[Role])
        /\ btn # NoHandle => btn.sel = Chains[Role][n]

C2_ClickAct ==
    (pubPc = "use" /\ btn # NoHandle /\ pubPc' # "finally") =>
        /\ clickedOn' = waited[Len(waited)].got
        /\ clickedOn' # NoHandle

\* C2: in every locator chain the candidates are waited on in declared
\* order, one at a time and once each; every candidate before the first
\* that resolves timed out and returned no element to interact with; no
\* candidate is waited on after one resolved; and the click acts on the
\* element returned for the candidate that resolved.
C2_DeclaredOrder == []C2_ChainInv /\ [][C2_ClickAct]_vars

C2_Witness ==
    /\ pubPc = "use"
    /\ Role = "title_input"
    /\ Len(waited) = 3
    /\ btn # NoHandle
    /\ clickedOn # NoHandle

\* ------------------------------------------------------------------- C3

\* C3: the publish control is clicked only after some poll of the upload
\* wait found no in-progress marker.
C3_ClickOnlyAfterClear == publishClicked => uploadClear

\* ------------------------------------------------------------------- C4

\* C4: no content action (opening the publish page, a wizard click, a
\* paste, the publish click) is performed unless an earlier session check of
\* the run saw a login marker cookie.
C4_LoginBeforeContent ==
    (contentActs > 0 \/ pasted # {} \/ clickedOn # NoHandle
        \/ publishClicked) => loginSeen

C4_Witness == loginWaits = 1 /\ loginSeen /\ publishClicked

\* ------------------------------------------------------------------- C5

\* C5: the login wait polls once per 3 seconds; it ends at the first poll
\* that sees a login marker and polls no more; when no poll sees one it
\* times out after exactly 100 polls (300 seconds of sleep), the caller then
\* ends the run with not_logged_in, and the wait is entered at most once.
C5_LoginWait ==
    /\ loginElapsed = 3 * loginPolls
    /\ loginPolls <= 100
    /\ pollsAfterSeen = 0
    /\ pubPc = "login_poll" => ~loginSeen
    /\ loginWaits <= 1
    /\ result = "not_logged_in" =>
        /\ loginPolls = 100
        /\ loginElapsed = 300
        /\ loginWaits = 1
        /\ ~loginSeen
    /\ (loginPolls = 100 /\ PubEnded) => result = "not_logged_in"

C5_Witness == pubPc = "done" /\ result = "not_logged_in" /\ loginPolls = 100

\* ------------------------------------------------------------------- C6

C6_Roles == {"text_to_image_btn", "generate_btn", "next_btn"}

C6_Inv ==
    failedRole # None =>
        /\ failedRole \in C6_Roles
        /\ result = "error"
        /\ PubEnded
        /\ ~publishClicked
        /\ uploadPolls = 0

C6_Fails ==
    (pubPc = "use" /\ btn = NoHandle /\ Role \in C6_Roles) =>
        (failedRole' = Role /\ result' = "error" /\ pubPc' = "finally")

C6_Stops ==
    failedRole # None =>
        UNCHANGED <<step, cand, waited, btn, clickedOn, pasted, contentActs,
                    uploadPolls, publish_button, publishClicked, result>>

\* C6: when every candidate of a required role (text-to-image, generate
\* image, next step) fails to resolve, publish_content ends with status
\* error, and no selector wait, click, paste or publish click follows.
C6_RequiredRoleShortCircuits ==
    []C6_Inv /\ [][C6_Fails]_vars /\ [][C6_Stops]_vars

C6_Witness == pubPc = "done" /\ failedRole = "next_btn" /\ result = "error"

\* ------------------------------------------------------------------- C7

FailureStatuses == {"error", "not_logged_in"}

\* C7, as stated: when the publish control is not found the run ends in a
\* failure outcome, distinct from the outcome of a click without
\* confirmation.
C7_NotFoundIsFailure ==
    /\ SubmitNotFound => result \in FailureStatuses
    /\ ClickedUnconfirmed => result \notin FailureStatuses

\* C7, amended: when the publish control is not found the run ends with the
\* non-error status ready, and that outcome is distinct from the outcome of
\* a click without confirmation (ready_to_confirm).
C7_NotFoundIsReady ==
    /\ SubmitNotFound => (result = "ready" /\ result \notin FailureStatuses)
    /\ ClickedUnconfirmed => result # "ready"

C7_Witness == pubPc = "done" /\ SubmitNotFound /\ uploadPolls = UPLOAD_POLLS

\* ------------------------------------------------------------------- C8

\* C8: status published is returned only after the publish control was
\* clicked and the success marker then observed; a click whose marker is not
\* observed returns ready_to_confirm, never error.
C8_PublishedOnlyIfConfirmed ==
    /\ result = "published" => (publishClicked /\ successSeen)
    /\ ClickedUnconfirmed => result = "ready_to_confirm"
    /\ publishClicked => result # "error"

C8_Witness == pubPc = "done" /\ publishClicked /\ result = "ready_to_confirm"

\* ------------------------------------------------------------------- C9

\* The keys that try rows 2..k: row i is reached with i - 1 downs and an
\* enter; row 1 needs no key.
RECURSIVE AdvanceKeys(_)
AdvanceKeys(k) ==
    IF k <= 1 THEN <<>>
    ELSE AdvanceKeys(k - 1) \o [i \in 1..(k - 1) |-> "down"] \o <<"enter">>

SearchKeys == <<"ctrl+f", "ctrl+v">>

\* C9: auto-retry examines the rows in order, one title check per row, and
\* accepts the first row whose title holds a keyword token of the query;
\* after acceptance the only keys pressed are send_message's paste and
\* enter; over 3 rows with a 2-word query, when row 1 does not match and
\* row 2 does, row 2 is accepted after exactly the two key presses down and
\* enter, and row 3 is never tried.
C9_FirstMatchingRow ==
    LET k == Len(rowMatch) IN
    /\ titleChecks = k
    /\ k <= max_tries
    /\ \A i \in 1..k : rowMatch[i] <=> (i = k /\ accepted)
    /\ accepted => k >= 1
    /\ (mode = "auto_retry" /\ wxPc = "retry_keys") =>
        keys = SearchKeys \o AdvanceKeys(k)
    /\ accepted =>
        keys = SearchKeys \o AdvanceKeys(k)
                \o (IF msgPasted THEN <<"ctrl+v", "enter">> ELSE <<>>)
    /\ (max_tries = 3 /\ rowMatch = <<FALSE, TRUE>>) =>
        /\ accepted
        /\ titleChecks = 2
        /\ SubSeq(keys, 3, 4) = <<"down", "enter">>
        /\ Len(keys) \in {4, 6}

C9_Witness ==
    /\ accepted
    /\ msgSent
    /\ max_tries = 3
    /\ contact = <<"a", "b", " ", "c", "G">>
    /\ rowMatch = <<FALSE, TRUE>>

\* ------------------------------------------------------------------ C10

\* C10: in auto-retry mode, when none of the auto_retry_count rows tried
\* shows a title holding a query keyword, the run exits with a non-zero code
\* after exactly auto_retry_count title checks, and the message is neither
\* pasted nor sent.
C10_NoMatchFails ==
    LET noMatch == /\ mode = "auto_retry"
                   /\ Len(rowMatch) = max_tries
                   /\ \A i \in 1..Len(rowMatch) : ~rowMatch[i]
    IN  /\ (mode = "auto_retry" /\ ~accepted) =>
            (~msgPasted /\ ~msgSent /\ clipboard # "message")
        /\ (noMatch /\ wxPc = "exited") =>
            /\ exitCode = 1
            /\ exitCode # 0
            /\ wxError = "no_match"
            /\ titleChecks = max_tries
        /\ wxError = "no_match" => noMatch

C10_Witness ==
    /\ wxPc = "exited"
    /\ wxError = "no_match"
    /\ max_tries = 3
    /\ titleChecks = 3
    /\ exitCode = 1

\* ------------------------------------------------------------------ C11

\* The disambiguation branch of main has been entered and its procedure, if
\* any, has begun.
Disambiguating == mode # "none" /\ wxPc \notin {"detect", "select_contact"}

\* C11, as stated: in every run, whatever the mode flags, exactly one of the
\* three disambiguation procedures (manual pause, auto-detect, auto-retry)
\* is executed.  A run with no mode flag executes none of them.
C11_ExactlyOneMode == Disambiguating => Cardinality(procs) = 1

\* C11, amended: for every combination of the mode flags at most one of the
\* three procedures is executed: auto-retry when --auto-retry is set;
\* otherwise auto-detect when --auto-detect-web-search is set; otherwise the
\* manual pause when --confirm or --interactive is set; and with no mode
\* flag none of them, the row at result_index being chosen unattended.
C11_AtMostOneMode ==
    /\ procs \subseteq {"manual", "auto_detect", "auto_retry"}
    /\ Cardinality(procs) <= 1
    /\ Disambiguating =>
        /\ ("auto_retry" \in procs) <=> args.auto_retry
        /\ ("auto_detect" \in procs) <=>
            (~args.auto_retry /\ args.auto_detect_web_search)
        /\ ("manual" \in procs) <=>
            /\ ~args.auto_retry
            /\ ~args.auto_detect_web_search
            /\ (args.confirm \/ args.interactive)
        /\ (procs = {}) <=> (args = NoFlags)

C11_Witness ==
    /\ msgSent
    /\ procs = {"auto_detect"}
    /\ args.confirm
    /\ args.interactive
    /\ args.auto_detect_web_search

\* ------------------------------------------------------------------ C12

\* A call's first window query found a window that is not minimized and is
\* usable, so the call returns it.
C12_FirstQueryUsable ==
    /\ wxPc = "acquire"
    /\ attempt = 1
    /\ wxPc' = "focus_contact"
    /\ winOps' # <<>>
    /\ Head(winOps') = "activate"

C12_NoRecovery ==
    /\ window' = "window"
    /\ attempt' = 1
    /\ acquireQueries' = acquireQueries + 1
    /\ UNCHANGED <<procChecks, launches, trayRestores, trayQueries, trayIx,
                   delays, calls, keys, clipboard, wxError>>

\* C12, as stated: such a call does nothing but the activation call and one
\* settle pause.  When activate() raises, restore() is called as well.
C12_OnlyActivateAndPause ==
    [][C12_FirstQueryUsable =>
        (C12_NoRecovery /\ winOps' = <<"activate", "sleep">>)]_vars

\* C12, amended: when the first window query of a call of activate_wechat
\* returns a window that is not minimized and is usable, the call returns
\* that window on attempt 1 with no process check, no launch, no restore
\* hotkey and no inter-attempt delay: it makes the activation call, a
\* restore() call if the activation call raised, and one settle pause; and a
\* further call in the same state does the same.
C12_UsableReturnsAtOnce ==
    [][C12_FirstQueryUsable =>
        /\ C12_NoRecovery
        /\ winOps' \in {<<"activate", "sleep">>,
                        <<"activate", "restore", "sleep">>}]_vars

C12_Witness ==
    /\ wxPc = "focus_contact"
    /\ calls = 2
    /\ attempt = 1
    /\ acquireQueries = 2
    /\ procChecks = 0
    /\ winOps = <<"activate", "sleep">>

\* ------------------------------------------------------------------ C13

\* The run of the messaging pipeline ended with a fatal error.
WxFailed == wxPc = "exited" /\ wxError # None

C14_CaptureFailureSwallowed ==
    /\ handlerCapture = "failed" =>
        /\ wxPc = "exited"
        /\ wxError # None
        /\ reported = wxError
        /\ exitCode # 0
    /\ WxFailed => reported = wxError

C14_Witness ==
    /\ handlerCapture = "failed"
    /\ wxError = "no_match"
    /\ reported = "no_match"
    /\ exitCode = 1

\* ------------------------------------------------------------------ C15

\* publish.py's process has exited after running publish_content or
\* check_status.
PubExited == pubPc = "exited" /\ context # "none"

SuccessStatuses == {"published", "ready_to_confirm", "ready", "logged_in"}

\* C15: the exit code is 0 when the run ends in a success-like status and
\* non-zero whenever it ends with status error.  publish.py prints the error
\* outcome and exits with code 0.
C15_ExitCodeFollowsStatus ==
    /\ (PubExited /\ printed \in SuccessStatuses) => pubExit = 0
    /\ (PubExited /\ printed = "error") => pubExit # 0

\* ------------------------------------------------------------------ C16

OutcomeStatuses ==
    {"published", "ready_to_confirm", "ready", "not_logged_in", "error"}

\* C16, for the publish command: every run of publish_content that ends
\* prints a structured outcome whose status is published, ready_to_confirm,
\* ready, not_logged_in or error, whatever the page does.  A failed
\* navigation or click propagates out of main and nothing is printed.
C16_StructuredOutcome ==
    (PubExited /\ command = "publish") => printed \in OutcomeStatuses

\* ------------------------------------------------------------------ C17

\* C17: every invocation eventually reaches a terminal state, whatever the
\* UI and the human do.  At the manual pause the script waits in input()
\* for as long as the human does not answer.
C17_AlwaysTerminates == <>(wxPc = "exited")

\* ------------------------------------------------------------------ C18

\* Invocation p runs with no other invocation started.
Alone(p) == \A q \in Invocations \ {p} : invPc[q] = "idle"

\* C18: no lock protects the clipboard: an invocation running alone always
\* pastes and sends its own message, while with two invocations running an
\* interleaving is reachable (the witness) in which one pastes and sends the
\* text the other copied.
C18_AloneOwnMessage ==
    \A p \in Invocations :
        /\ inputBox[p] # NoText => invPc[p] \in {"enter", "done"}
        /\ sent[p] # NoText => (invPc[p] = "done" /\ sent[p] = inputBox[p])
        /\ Alone(p) =>
            /\ searchBox[p] \in {NoText, TextOf(p, "contact")}
            /\ inputBox[p] \in {NoText, TextOf(p, "message")}
            /\ sent[p] \in {NoText, TextOf(p, "message")}

C18_Witness ==
    /\ invPc[1] = "done"
    /\ invPc[2] # "idle"
    /\ inputBox[1].by = 2
    /\ sent[1].by = 2
    /\ sent[1] = sysClipboard

\* ------------------------------------------------------------------ C19

\* C19: title truncation is idempotent: truncating the truncated title
\* gives it back.  A title cut just after a space ends with that space, and
\* the second truncation strips it.
C19_Idempotent == ttPc = "twice" => twice = once

\* ------------------------------------------------------------------ C20

\* The 0-based indices, past the midpoint and before the cut point, at which
\* the emoji-stripped title has a separator.
C20_Boundaries(stripped) ==
    {i \in 0..(max_len - 1) :
        /\ i > max_len \div 2
        /\ \E k \in 1..Len(Separators) : stripped[i + 1] = Separators[k]}

\* C20: an emoji-stripped title longer than max_len is cut just after the
\* separator nearest to the cut point among those past the midpoint, and at
\* max_len itself only when there is none.  The code takes the first
\* separator of its list that occurs past the midpoint, not the nearest.
C20_NearestBoundary ==
    LET stripped == Strip(_strip_emoji(title))
        B == C20_Boundaries(stripped)
    IN  (ttPc = "once" /\ Len(stripped) > max_len) =>
            IF B = {} THEN once = SubSeq(stripped, 1, max_len)
            ELSE \E i \in B :
                    /\ \A j \in B : j <= i
                    /\ once = SubSeq(stripped, 1, i + 1)

\* ------------------------------------------------------------------ C21

\* The text holds an emoji of the stripped ranges.
C21_HasEmoji(text) == \E i \in 1..Len(text) : text[i] = "E"

\* The text holds a hashtag-style token: '#' followed by a non-space.
C21_HasHashtag(text) ==
    \E i \in 1..(Len(text) - 1) : text[i] = "#" /\ text[i + 1] # " "

C22_AcquireParts ==
    {<<>>, <<"restore", "sleep">>, <<"restore", "alt+tab", "sleep">>,
     <<"activate", "sleep">>, <<"activate", "restore", "sleep">>}

\* The hotkeys of the tray recovery pressed so far, in their fixed order.
C22_TrayPrefixes ==
    {<<>>, <<"win+d">>, <<"win+d", "win+m">>, <<"win+d", "win+m", "win+up">>}

\* C22 as stated: keyboard window cycling (alt+tab) is only ever pressed after
\* the show-desktop / minimize-all toggles (win+d, win+m).
C22_CyclingAfterToggles ==
    \A i \in 1..Len(winOps) :
        winOps[i] = "alt+tab" =>
            \E j \in 1..(i - 1) : winOps[j] \in {"win+d", "win+m"}

\* C22, amended: since the latest window query the operations are one pass of
\* lines 126-145 (the restore call first on a minimized window, alt+tab
\* directly after it when the call raised) followed by the tray hotkeys in
\* the order win+d, win+m, win+up.
C22_RestoreThenCyclingThenToggles ==
    /\ \E a \in C22_AcquireParts, t \in C22_TrayPrefixes : winOps = a \o t
    /\ \A i \in 1..Len(winOps) :
        winOps[i] = "alt+tab" => i = 2 /\ winOps[1] = "restore"

\* A minimized window whose restore call raised, followed by all three tray
\* hotkeys.
C22_Witness ==
    winOps = <<"restore", "alt+tab", "sleep", "win+d", "win+m", "win+up">>

\* A step that ends a failed attempt and moves on to the next window query.
C23_NextAttempt ==
    /\ wxPc \in {"attempt_failed", "restore_from_tray"}
    /\ attempt' = attempt + 1

C24_ContentInjectedBeforeSubmit ==
    publishClicked => {"title", "content"} \subseteq pasted

\* C25: whenever the message has been pasted, a search result row was
\* selected first: a title match was confirmed, or, after the two key presses
\* of the search (ctrl+f, ctrl+v), enter was pressed on a row before the
\* message was pasted.
C25_RowSelectedBeforeSend ==
    msgPasted =>
        \/ accepted
        \/ \E i \in 3..Len(keys) :
            /\ keys[i] = "enter"
            /\ \A j \in 3..i : keys[j] # "ctrl+v"

\* C26: a run that pressed the send key ends with exit code 0, whatever the
\* screenshot taken after sending does.
C26_SentMeansSuccess ==
    (wxPc = "exited" /\ msgSent) => exitCode = 0

\* The ghosts and counters that only a page action changes.
C27_PageActionVars ==
    <<loginPolls, loginWaits, step, cand, waited, btn, clickedOn, pasted,
      contentActs, uploadPolls, publish_button, publishClicked, successSeen>>

\* C27: once the browser context was launched, every path out of
\* publish_content and check_status (a returned status or an exception of a
\* page action) has closed the context exactly once, the context is never
\* closed twice, and no page action is performed after the close.
C27_ContextClosedOnce ==
    /\ [](/\ closeCount \in {0, 1}
          /\ (context = "closed") <=> (closeCount = 1)
          /\ (pubPc \in {"done", "exited"} /\ context # "none") =>
                (context = "closed" /\ closeCount = 1))
    /\ [][context = "closed" =>
            /\ UNCHANGED C27_PageActionVars
            /\ context' = "closed"]_vars

\* A run in which a page action raised has ended with the context closed once.
C27_Witness ==
    /\ pubPc = "exited"
    /\ raised
    /\ context = "closed"
    /\ closeCount = 1

====
